---------------------------- MODULE Spec2Model ----------------------------
(***************************************************************************)
(* Caching HTTP/1.0 forward proxy (src/server.cpp): the select() loop of   *)
(* main, the request cycle it runs for a readable client, handleCache and  *)
(* the helpers they call.  The LRU cache class (http::LRUCache) and the    *)
(* entry type (http::httpHeader) are declared in httpUtils.h; the cache    *)
(* operations are modelled from their documented contract.                 *)
(*                                                                         *)
(* Strings are TLA+ strings; hostName + filePath is \o.  A date header     *)
(* value is a string that parseHTTPDate either converts to an instant or   *)
(* rejects.  A request cycle runs to completion inside the loop body, so   *)
(* it is one action; its inputs are the request read, what the origin does *)
(* on each connection, and the reading of the clock.                       *)
(*                                                                         *)
(* Spec explores the request cycles over all requests and origin replies,  *)
(* serving the monitored clients in any order.  SpecLoop follows select()  *)
(* and the for loop descriptor by descriptor, with the cycle split at the  *)
(* point where main blocks on the origin, over fewer requests and replies. *)
(* SpecLRU calls the cache directly; SpecCodec applies parseHTTPBody to    *)
(* texts, character by character.                                          *)
(***************************************************************************)
EXTENDS Naturals, Sequences, FiniteSets

VARIABLES
    cache,          \* http::LRUCache contents: <<[key, value]>>, least recently used first
    masterReadFds,  \* accepted client descriptors still monitored
    cycle,          \* record of the request cycle that ran last (history)
    touched,        \* keys in the order of their last fetch hit or add (history)
    op,             \* the last call made on the cache directly (history)
    codec,          \* a text handed to parseHTTPBody on its own, and the result
    backlog,        \* connections waiting on the listening socket for accept()
    readable,       \* client descriptors with unread data, in the order the data arrived
    readFds,        \* descriptors select() reported that the for loop has yet to reach
    serving,        \* the client descriptor whose request main has read and is handling
    receiveBuf      \* the request read from that descriptor

loopVars == <<backlog, readable, readFds, serving, receiveBuf>>

vars == <<cache, masterReadFds, cycle, touched, op, codec, loopVars>>

(***************************************************************************)
(* Bounds                                                                  *)
(***************************************************************************)
\* capacity of the cache under analysis (main constructs it with 10)
Capacity == 2
\* client descriptors that accept() can hand out
MaxClients == 1

\* longest header block, body and separator-free text given to parseHTTPBody
MaxHeaderLen == 3
MaxBodyLen == 2
MaxRawLen == 5

\* client descriptors in the model that follows the for loop over descriptors
MaxLoopClients == 2

ClientFds == 1..MaxClients
\* instants at which the clock is read: on Day1 (Day2 still ahead), on Day2
Times == {1, 2}
Hosts == {"a", "ab"}
Paths == {"bc", "c"}


(***************************************************************************)
(* Inputs: what clients send and what origins answer                       *)
(***************************************************************************)
\* A date header value: "" is an absent or empty header, "junk" does not follow
\* the layout "%a, %d %b %Y %H:%M:%S", "Day0" < "Day1" < "Day2" are well-formed dates.
DateStrings == {"", "junk", "Day0", "Day1", "Day2"}

\* The bytes read from a client, by the parts the request pattern looks at.
Request(method, path, version, host) ==
    [method |-> method, path |-> path, version |-> version, host |-> host]

WellFormedRequests == {Request("GET", p, "HTTP/1.0", h) : h \in Hosts, p \in Paths}
MalformedRequests == {Request("POST", "c", "HTTP/1.0", "a"), Request("", "", "", "")}
ClientRequests == WellFormedRequests \cup MalformedRequests

\* The bytes an origin sends back before it closes the connection.
\*   bytes: at least one byte arrived;  sep: they hold a "\r\n\r\n";
\*   date, lastModified, expires: the values of the Date:, Last-Modified: and
\*   Expires: lines ("" when the line is missing);  body: what follows the separator.
Response(bytes, sep, date, lastModified, expires, body) ==
    [bytes |-> bytes, sep |-> sep, date |-> date, lastModified |-> lastModified,
     expires |-> expires, body |-> body]

NoBytes == Response(FALSE, FALSE, "", "", "", "")
NoSeparator == Response(TRUE, FALSE, "Day1", "", "", "")
HeadersOnly == Response(TRUE, TRUE, "Day1", "Day0", "Day2", "")
\* Replies that carry a page: one with all three date headers, one whose only
\* well-formed date is Last-Modified.
Pages ==
    {Response(TRUE, TRUE, "Day1", "Day0", "Day2", "page1"),
     Response(TRUE, TRUE, "", "Day0", "junk", "page2")}
OriginResponses == Pages \cup {NoBytes, NoSeparator, HeadersOnly}

\* What one connection to an origin does: connectToServer succeeds or not, send()
\* succeeds or not, and the origin's reply.
Outcome(connected, sent, response) ==
    [connected |-> connected, sent |-> sent, response |-> response]

Unreachable == Outcome(FALSE, FALSE, NoBytes)
SendFails == Outcome(TRUE, FALSE, NoBytes)
OriginOutcomes == {Unreachable, SendFails} \cup {Outcome(TRUE, TRUE, r) : r \in OriginResponses}
NoOutcome == Unreachable

(***************************************************************************)
(* Date utility                                                            *)
(***************************************************************************)
\* parseHTTPDate: the instant a well-formed date denotes; ok = FALSE stands for
\* the runtime_error thrown when get_time fails.
parseHTTPDate(httpDate) ==
    CASE httpDate = "Day0" -> [ok |-> TRUE, time |-> 0]
      [] httpDate = "Day1" -> [ok |-> TRUE, time |-> 1]
      [] httpDate = "Day2" -> [ok |-> TRUE, time |-> 2]
      [] OTHER -> [ok |-> FALSE, time |-> 0]

checkIfTimePassed(httpTime, currentTime) ==
    LET checkTime == parseHTTPDate(httpTime)
    IN  IF ~checkTime.ok THEN "FAILURE_TO_PARSE"
        ELSE IF checkTime.time <= currentTime THEN "TIME_UNIT_PASSED"
        ELSE "SUCCESS"

(***************************************************************************)
(* Message codec                                                           *)
(***************************************************************************)
\* The pattern ^GET\s+(\S+)\s+HTTP\/1\.0\r\nHost:\s*(\S+)\r\n; on a failed search
\* path and hostName keep the caller's (empty) strings.
parseHTTPrequest(getRequest) ==
    IF /\ getRequest.method = "GET"
       /\ getRequest.version = "HTTP/1.0"
       /\ getRequest.path # ""
       /\ getRequest.host # ""
    THEN [retVal |-> TRUE, path |-> getRequest.path, hostName |-> getRequest.host]
    ELSE [retVal |-> FALSE, path |-> "", hostName |-> ""]

\* date and expires are reference parameters; lastModified is passed by value, so
\* the caller's string (lm0) is what the caller holds afterwards.
parseHTTPresponse(httpResponse, date0, lm0, expires0) ==
    [date |-> IF httpResponse.date # "" THEN httpResponse.date ELSE date0,
     lastModified |-> lm0,
     expires |-> IF httpResponse.expires # "" THEN httpResponse.expires ELSE expires0]

\* Variant that starts the body one character early, on the separator's
\* last "\n".
parseHTTPBodyFromSeparator(httpResponse) ==
    IF ~httpResponse.sep THEN "" ELSE "\n" \o httpResponse.body

parseHTTPBody(httpResponse) ==
    IF ~httpResponse.sep THEN "" ELSE httpResponse.body

(***************************************************************************)
(* parseHTTPBody on the characters of a response                           *)
(***************************************************************************)
\* A text is a sequence of characters; carriage return, line feed and one
\* other character are told apart.
Chars == {"\r", "\n", "x"}
Texts(n) == UNION {[1..k -> Chars] : k \in 0..n}

\* The delimiter "\r\n\r\n" between header and body.
Separator == <<"\r", "\n", "\r", "\n">>

\* The offsets (from 0) at which pat occurs in str.
Occurrences(str, pat) ==
    {pos \in 0..Len(str) :
        /\ pos + Len(pat) <= Len(str)
        /\ SubSeq(str, pos + 1, pos + Len(pat)) = pat}

\* std::string::find: the lowest offset at which pat occurs; found = FALSE
\* stands for npos.
find(str, pat) ==
    IF Occurrences(str, pat) = {}
    THEN [found |-> FALSE, pos |-> 0]
    ELSE [found |-> TRUE,
          pos |-> CHOOSE pos \in Occurrences(str, pat) :
                      \A other \in Occurrences(str, pat) : pos <= other]

\* std::string::substr(pos): the characters from offset pos to the end.
substr(str, pos) == SubSeq(str, pos + 1, Len(str))

\* Variant that starts the body three characters after the offset found.
parseHTTPBodyTextOffByOne(httpResponse) ==
    LET endOfHeader == find(httpResponse, Separator)
    IN  IF ~endOfHeader.found THEN <<>> ELSE substr(httpResponse, endOfHeader.pos + 3)

\* parseHTTPBody, character by character: everything after the first
\* separator, nothing when there is none.
parseHTTPBodyText(httpResponse) ==
    LET endOfHeader == find(httpResponse, Separator)
    IN  IF ~endOfHeader.found THEN <<>> ELSE substr(httpResponse, endOfHeader.pos + 4)

(***************************************************************************)
(* http::httpHeader and http::LRUCache                                     *)
(***************************************************************************)
httpHeader(hostName, filePath, lastAccessTime, lastModified, expires, body) ==
    [hostName |-> hostName, filePath |-> filePath, lastAccessTime |-> lastAccessTime,
     lastModified |-> lastModified, expires |-> expires, body |-> body]

EmptyHeader == httpHeader("", "", "", "", "", "")

CacheKeys(c) == {c[i].key : i \in 1..Len(c)}

CacheValue(c, key) == c[CHOOSE i \in 1..Len(c) : c[i].key = key].value

WithoutKey(c, key) == SelectSeq(c, LAMBDA slot : slot.key # key)

\* Variant of fetch that returns the entry and leaves the recency order alone.
LRUFetchNoPromote(c, key) ==
    IF key \in CacheKeys(c)
    THEN [found |-> TRUE, value |-> CacheValue(c, key), cache |-> c]
    ELSE [found |-> FALSE, value |-> EmptyHeader, cache |-> c]

\* fetch: the entry, promoted to most recently used; found = FALSE is the
\* runtime_error of a miss, which leaves the cache as it was.
LRUFetch(c, key) ==
    IF key \in CacheKeys(c)
    THEN [found |-> TRUE, value |-> CacheValue(c, key),
          cache |-> Append(WithoutKey(c, key), [key |-> key, value |-> CacheValue(c, key)])]
    ELSE [found |-> FALSE, value |-> EmptyHeader, cache |-> c]

\* Variant of add that overwrites a resident key where it stands.
LRUAddInPlace(c, key, value, capacity) ==
    LET inserted == IF key \in CacheKeys(c)
                    THEN [i \in 1..Len(c) |->
                            IF c[i].key = key THEN [key |-> key, value |-> value] ELSE c[i]]
                    ELSE Append(c, [key |-> key, value |-> value])
    IN  IF Len(inserted) > capacity THEN Tail(inserted) ELSE inserted

\* add: insert or overwrite, promote, then evict the least recently used key
\* when the size has passed the capacity.
LRUAdd(c, key, value, capacity) ==
    LET inserted == Append(WithoutKey(c, key), [key |-> key, value |-> value])
    IN  IF Len(inserted) > capacity THEN Tail(inserted) ELSE inserted

(***************************************************************************)
(* Origin traffic                                                          *)
(***************************************************************************)
\* A request put on the wire to an origin.  ifModifiedSince is "" for the plain
\* GET of main; conditional marks the request sendIfModifiedSinceRequest builds.
OriginRequest(conditional, hostName, filePath, ifModifiedSince) ==
    [conditional |-> conditional, hostName |-> hostName, filePath |-> filePath,
     ifModifiedSince |-> ifModifiedSince]

\* getaddrinfo() does not resolve the empty name; any other host is reachable
\* or not as the network decides (co.connected).
connectToServer(hostName, co) == hostName # "" /\ co.connected

\* Returns the bytes received: nothing when the connection or the send fails.
\* connects and wire record the calls made on the way; opened and closed name
\* the origin sockets the call opened and the ones it closed (no return path
\* calls close on newSockFd).
sendIfModifiedSinceRequest(date, header, co) ==
    LET newSockFd == connectToServer(header.hostName, co)
        ifModReq == OriginRequest(TRUE, header.hostName, header.filePath, date)
    IN  IF ~newSockFd
        THEN [responseBuffer |-> NoBytes, connects |-> <<header.hostName>>, wire |-> <<>>,
              opened |-> <<>>, closed |-> <<>>]
        ELSE IF ~co.sent
        THEN [responseBuffer |-> NoBytes, connects |-> <<header.hostName>>, wire |-> <<>>,
              opened |-> <<"newSockFd">>, closed |-> <<>>]
        ELSE [responseBuffer |-> co.response, connects |-> <<header.hostName>>,
              wire |-> <<ifModReq>>, opened |-> <<"newSockFd">>, closed |-> <<>>]

(***************************************************************************)
(* handleCache                                                             *)
(***************************************************************************)
\* The date the priority loop settles on for `header`, and whether it found one.
RequestDate(header, currentTime) ==
    IF checkIfTimePassed(header.expires, currentTime) = "SUCCESS"
    THEN [exitLoop |-> TRUE, requestDate |-> header.expires, priority |-> 1]
    ELSE IF checkIfTimePassed(header.lastModified, currentTime) # "FAILURE_TO_PARSE"
    THEN [exitLoop |-> TRUE, requestDate |-> header.lastModified, priority |-> 2]
    ELSE IF checkIfTimePassed(header.lastAccessTime, currentTime) # "FAILURE_TO_PARSE"
    THEN [exitLoop |-> TRUE, requestDate |-> header.lastAccessTime, priority |-> 3]
    ELSE [exitLoop |-> FALSE, requestDate |-> "", priority |-> 4]

\* What handleCache returns (ret) and leaves in the cache, with a record of what
\* it did: lookup, the entry fetched, the conditional exchange, the add calls.
Handled(ret, c, lookup, fetchedHeader, picked, ims, adds, outcome) ==
    [ret |-> ret, cache |-> c, lookup |-> lookup, fetchedHeader |-> fetchedHeader,
     exitLoop |-> picked.exitLoop, requestDate |-> picked.requestDate,
     imsCalls |-> IF ims.called THEN <<[date |-> picked.requestDate,
                                        hostName |-> fetchedHeader.hostName,
                                        filePath |-> fetchedHeader.filePath]>>
                  ELSE <<>>,
     connects |-> ims.connects, wire |-> ims.wire, newResponse |-> ims.responseBuffer,
     opened |-> ims.opened, closed |-> ims.closed,
     adds |-> adds, outcome |-> outcome]

\* newResponse.empty() after sendIfModifiedSinceRequest (line 335)
ResponseMissing(newResponse) == ~newResponse.bytes

\* Variant of the check below that lets an empty body through.
BodyMissingNever(newBody) == FALSE

\* newResponse.empty() after parseHTTPBody (line 348)
BodyMissing(newBody) == newBody = ""

\* Variant that keys the cache by host name alone.
CacheKeyHostOnly(header) == header.hostName

\* key = header.hostName + header.filePath (line 258)
CacheKey(header) == header.hostName \o header.filePath

NoIms == [called |-> FALSE, connects |-> <<>>, wire |-> <<>>, responseBuffer |-> NoBytes,
          opened |-> <<>>, closed |-> <<>>]

handleCache(header, c, capacity, currentTime, co) ==
    LET key == CacheKey(header)
        fetched == LRUFetch(c, key)
        fetchedHeader == fetched.value
        picked == RequestDate(header, currentTime)
        noDate == [exitLoop |-> FALSE, requestDate |-> "", priority |-> 4]
        sent == sendIfModifiedSinceRequest(picked.requestDate, fetchedHeader, co)
        ims == [called |-> TRUE, connects |-> sent.connects, wire |-> sent.wire,
                responseBuffer |-> sent.responseBuffer,
                opened |-> sent.opened, closed |-> sent.closed]
        newResponse == sent.responseBuffer
        parsed == parseHTTPresponse(newResponse, "", "", "")
        newBody == parseHTTPBody(newResponse)
        updatedHeader == httpHeader(fetchedHeader.hostName, fetchedHeader.filePath,
                                    parsed.date, parsed.lastModified, parsed.expires,
                                    newBody)
    IN  IF ~fetched.found
        THEN Handled(header, LRUAdd(c, key, header, capacity), "miss", EmptyHeader,
                     noDate, NoIms, <<[key |-> key, value |-> header]>>, "first-fetch")
        ELSE IF ~picked.exitLoop
        THEN Handled(fetchedHeader, fetched.cache, "hit", fetchedHeader,
                     picked, NoIms, <<>>, "unverified-stale")
        ELSE IF ResponseMissing(newResponse)
        THEN Handled(fetchedHeader, fetched.cache, "hit", fetchedHeader,
                     picked, ims, <<>>, "stale-served")
        ELSE IF BodyMissing(newBody)
        THEN Handled(fetchedHeader, fetched.cache, "hit", fetchedHeader,
                     picked, ims, <<>>, "stale-served")
        ELSE Handled(updatedHeader,
                     LRUAdd(fetched.cache, key, updatedHeader, capacity), "hit",
                     fetchedHeader, picked, ims,
                     <<[key |-> key, value |-> updatedHeader]>>, "revalidated")

\* handleCache reaches sendIfModifiedSinceRequest: the key is resident and the
\* priority loop found a date.
SendsConditional(header, c, currentTime) ==
    /\ (header.hostName \o header.filePath) \in CacheKeys(c)
    /\ RequestDate(header, currentTime).exitLoop

(***************************************************************************)
(* main: one pass of the loop body for a readable client descriptor        *)
(***************************************************************************)
NoRequest == Request("", "", "", "")

\* Variant of the check below that lets an empty page through.
PageMissingNever(responseBuffer) == FALSE

\* responseBuffer.empty() after parseHTTPBody in main (line 553)
PageMissing(responseBuffer) == responseBuffer = ""

\* The record kept of a request cycle (history; the program keeps none).
\*   phases: the states of section 4.6 the connection went through after
\*   AwaitingRequest;  connects: the host names passed to connectToServer;
\*   wire: the requests sent to origins;  returned: what handleCache returned;
\*   responded/sent: the send() to the client;  sizeBefore: entries resident
\*   when the cycle began;  resident: the request's key was among them;
\*   opened/closed: the origin sockets the cycle opened and those it closed.
IdleCycle ==
    [recOk |-> FALSE, getRequest |-> NoRequest, matched |-> FALSE,
     host |-> "", path |-> "", phases |-> <<>>, connects |-> <<>>, wire |-> <<>>,
     responseBuffer |-> NoBytes, header |-> EmptyHeader, lookup |-> "none",
     fetchedHeader |-> EmptyHeader, exitLoop |-> FALSE, requestDate |-> "",
     imsCalls |-> <<>>, newResponse |-> NoBytes, adds |-> <<>>, outcome |-> "none",
     returned |-> EmptyHeader, responded |-> FALSE, sent |-> "", currentTime |-> 0,
     sizeBefore |-> 0, resident |-> FALSE, opened |-> <<>>, closed |-> <<>>]

RequestCycle(recOk, getRequest, uo, co, c, capacity, currentTime) ==
    LET req == parseHTTPrequest(getRequest)
        host == req.hostName
        path == req.path
        webSockFd == connectToServer(host, uo)
        httpRequest == OriginRequest(FALSE, host, path, "")
        responseBuffer == uo.response
        parsed == parseHTTPresponse(responseBuffer, "", "", "")
        body == parseHTTPBody(responseBuffer)
        header == httpHeader(host, path, parsed.date, parsed.lastModified,
                             parsed.expires, body)
        h == handleCache(header, c, capacity, currentTime, co)
        readFailed == [IdleCycle EXCEPT !.sizeBefore = Len(c),
                                        !.phases = <<"Closed">>]
        parsedRequest == [readFailed EXCEPT !.recOk = TRUE, !.getRequest = getRequest,
                                            !.matched = req.retVal, !.host = host,
                                            !.path = path, !.connects = <<host>>,
                                            !.resident = (host \o path) \in CacheKeys(c)]
        fetchedPage == [parsedRequest EXCEPT
                            !.wire = IF uo.sent THEN <<httpRequest>> ELSE <<>>,
                            !.responseBuffer = responseBuffer,
                            !.opened = <<"webSockFd">>,
                            !.closed = <<"webSockFd">>]
    IN  IF ~recOk
        THEN [cache |-> c, cycle |-> readFailed]
        ELSE IF ~webSockFd
        THEN [cache |-> c,
              cycle |-> [parsedRequest EXCEPT
                            !.phases = <<"Parsing", "FetchingOrRevalidating", "Closed">>]]
        ELSE IF PageMissing(body)
        THEN [cache |-> c,
              cycle |-> [fetchedPage EXCEPT
                            !.phases = <<"Parsing", "FetchingOrRevalidating", "Closed">>]]
        ELSE [cache |-> h.cache,
              cycle |-> [fetchedPage EXCEPT
                            !.phases = <<"Parsing", "FetchingOrRevalidating",
                                         "Responding", "Closed">>,
                            !.header = header,
                            !.currentTime = currentTime,
                            !.lookup = h.lookup,
                            !.fetchedHeader = h.fetchedHeader,
                            !.exitLoop = h.exitLoop,
                            !.requestDate = h.requestDate,
                            !.imsCalls = h.imsCalls,
                            !.connects = <<host>> \o h.connects,
                            !.wire = fetchedPage.wire \o h.wire,
                            !.opened = fetchedPage.opened \o h.opened,
                            !.closed = fetchedPage.closed \o h.closed,
                            !.newResponse = h.newResponse,
                            !.adds = h.adds,
                            !.outcome = h.outcome,
                            !.returned = h.ret,
                            !.responded = TRUE,
                            !.sent = h.ret.body]]

\* The header main would hand to handleCache for this request and origin reply.
HeaderFor(getRequest, uo) ==
    LET req == parseHTTPrequest(getRequest)
        parsed == parseHTTPresponse(uo.response, "", "", "")
    IN  httpHeader(req.hostName, req.path, parsed.date, parsed.lastModified,
                   parsed.expires, parseHTTPBody(uo.response))

\* What the connection main opens can do: the empty host name of an unmatched
\* request never resolves.
FetchOutcomes(getRequest) ==
    IF parseHTTPrequest(getRequest).hostName = "" THEN {Unreachable} ELSE OriginOutcomes

\* handleCache is reached and finds the key resident.
ReachesHit(getRequest, uo, c) ==
    /\ connectToServer(parseHTTPrequest(getRequest).hostName, uo)
    /\ ~PageMissing(parseHTTPBody(uo.response))
    /\ (HeaderFor(getRequest, uo).hostName \o HeaderFor(getRequest, uo).filePath)
           \in CacheKeys(c)

\* time(nullptr) is read only by the priority loop of a hit; 0 stands for a
\* clock that was not read.
ClockReadings(getRequest, uo, c) ==
    IF ReachesHit(getRequest, uo, c) THEN Times ELSE {0}

\* The conditional exchange is an input only when the cycle gets that far.
ConditionalOutcomes(getRequest, uo, c, currentTime) ==
    IF /\ ReachesHit(getRequest, uo, c)
       /\ SendsConditional(HeaderFor(getRequest, uo), c, currentTime)
    THEN OriginOutcomes
    ELSE {NoOutcome}

(***************************************************************************)
(* The program                                                             *)
(***************************************************************************)
\* Variant that constructs the cache one entry too large.
CacheCapacityOneMore == Capacity + 1

\* The capacity main gives the cache it constructs (line 446).
CacheCapacity == Capacity

NoOp == [kind |-> "none", key |-> "", found |-> FALSE, value |-> EmptyHeader]

\* The listening socket is created before any client is accepted, so it has
\* the lowest descriptor of all the loop monitors.
serverSocketFd == 0

\* main is not inside any client's cycle.
NoClient == 0

\* Variant that forgets FD_CLR: the descriptor stays in the master set.
CloseClientStaysMonitored(fds, descriptor) == fds

\* FD_CLR(descriptor, &masterReadFds); close(descriptor);
CloseClient(fds, descriptor) == fds \ {descriptor}

\* No text has been handed to parseHTTPBody on its own.
NoCodec == [composed |-> FALSE, headerBlock |-> <<>>, body |-> <<>>,
            httpResponse |-> <<>>, done |-> FALSE, httpBody |-> <<>>]

Init ==
    /\ cache = <<>>
    /\ masterReadFds = {}
    /\ cycle = IdleCycle
    /\ touched = <<>>
    /\ op = NoOp
    /\ codec = NoCodec
    /\ backlog = 0
    /\ readable = <<>>
    /\ readFds = {}
    /\ serving = NoClient
    /\ receiveBuf = NoRequest

\* The listening socket is readable: accept() hands out the lowest free
\* descriptor, which joins the master set.
Accept ==
    /\ masterReadFds # ClientFds
    /\ LET clientSocketFd == CHOOSE d \in ClientFds \ masterReadFds :
                                 \A e \in ClientFds \ masterReadFds : d <= e
       IN  masterReadFds' = masterReadFds \cup {clientSocketFd}
    /\ UNCHANGED <<cache, cycle, touched, op, codec, loopVars>>

\* read() on a readable client fails: the descriptor is dropped.
ReadFails(descriptor) ==
    /\ descriptor \in masterReadFds
    /\ LET r == RequestCycle(FALSE, NoRequest, NoOutcome, NoOutcome,
                             cache, CacheCapacity, 0)
       IN  /\ cache' = r.cache
           /\ cycle' = r.cycle
    /\ masterReadFds' = CloseClient(masterReadFds, descriptor)
    /\ UNCHANGED <<touched, op, codec, loopVars>>

\* A client descriptor is readable and read() returns its request: the whole
\* cycle of lines 500-583 runs and the descriptor is closed.
ServeClient(descriptor) ==
    /\ descriptor \in masterReadFds
    /\ \E getRequest \in ClientRequests :
       \E uo \in FetchOutcomes(getRequest) :
         \E currentTime \in ClockReadings(getRequest, uo, cache) :
           \E co \in ConditionalOutcomes(getRequest, uo, cache, currentTime) :
             LET r == RequestCycle(TRUE, getRequest, uo, co,
                                   cache, CacheCapacity, currentTime)
             IN  /\ cache' = r.cache
                 /\ cycle' = r.cycle
    /\ masterReadFds' = CloseClient(masterReadFds, descriptor)
    /\ UNCHANGED <<touched, op, codec, loopVars>>

Next ==
    \/ Accept
    \/ \E descriptor \in ClientFds : ReadFails(descriptor)
    \/ \E descriptor \in ClientFds : ServeClient(descriptor)

Spec == Init /\ [][Next]_vars

(***************************************************************************)
(* The cache on its own: fetch and add called in any order                 *)
(***************************************************************************)
\* The entries the calls store: a page of each host and path, and one of a
\* further origin; ("a", "bc") and ("ab", "c") share the key "abc".
DirectEntries ==
    {httpHeader(h, p, "Day1", "", "Day2", "page1") : h \in Hosts, p \in Paths}
        \cup {httpHeader("d", "e", "", "", "junk", "page2")}
DirectKeys == {e.hostName \o e.filePath : e \in DirectEntries}

Touch(order, key) == Append(SelectSeq(order, LAMBDA k : k # key), key)

CacheFetch(key) ==
    /\ LET fetched == LRUFetch(cache, key)
       IN  /\ cache' = fetched.cache
           /\ op' = [kind |-> "fetch", key |-> key, found |-> fetched.found,
                     value |-> fetched.value]
           /\ touched' = IF fetched.found THEN Touch(touched, key) ELSE touched
    /\ UNCHANGED <<masterReadFds, cycle, codec, loopVars>>

CacheAdd(value) ==
    /\ LET key == value.hostName \o value.filePath
       IN  /\ cache' = LRUAdd(cache, key, value, CacheCapacity)
           /\ op' = [kind |-> "add", key |-> key, found |-> FALSE, value |-> value]
           /\ touched' = Touch(touched, key)
    /\ UNCHANGED <<masterReadFds, cycle, codec, loopVars>>

NextLRU ==
    \/ \E key \in DirectKeys : CacheFetch(key)
    \/ \E value \in DirectEntries : CacheAdd(value)

SpecLRU == Init /\ [][NextLRU]_vars

(***************************************************************************)
(* main, descriptor by descriptor: select() and the for loop over its      *)
(* result.  Clients connect and send when they choose; main reads a        *)
(* request and then blocks on the origin until the cycle is through.       *)
(***************************************************************************)
LoopFds == 1..MaxLoopClients

\* What clients send and origins answer in this model.
LoopRequests == {Request("GET", "c", "HTTP/1.0", "a"), NoRequest}
LoopOutcomes == {Unreachable, Outcome(TRUE, TRUE, Response(TRUE, TRUE, "Day1", "Day0", "Day2", "page1"))}

Range(seq) == {seq[i] : i \in 1..Len(seq)}
Without(seq, descriptor) == SelectSeq(seq, LAMBDA d : d # descriptor)

\* Variant that walks the descriptors from MaxFd downwards.
HighestDescriptor(fds) == CHOOSE d \in fds : \A e \in fds : e <= d

\* for (descriptor = 0; descriptor <= MaxFd; descriptor++): the next descriptor
\* the loop stops at is the lowest one still set.
NextDescriptor(fds) == CHOOSE d \in fds : \A e \in fds : d <= e

\* Variant in which a cycle does not hold up the loop.
AtLoopTopAlways == TRUE

\* main is between two descriptors of the for loop, or in select().
AtLoopTop == serving = NoClient

\* A client completes a connection to the listening socket.
ClientConnects ==
    /\ Cardinality(masterReadFds) + backlog < MaxLoopClients
    /\ backlog' = backlog + 1
    /\ UNCHANGED <<cache, masterReadFds, cycle, touched, op, codec,
                   readable, readFds, serving, receiveBuf>>

\* An accepted client's request (or its end of stream) arrives.
ClientSends(descriptor) ==
    /\ descriptor \in masterReadFds
    /\ descriptor \notin Range(readable)
    /\ descriptor # serving
    /\ readable' = Append(readable, descriptor)
    /\ UNCHANGED <<cache, masterReadFds, cycle, touched, op, codec,
                   backlog, readFds, serving, receiveBuf>>

\* select() returns with every monitored descriptor that is ready.
Select ==
    /\ AtLoopTop
    /\ readFds = {}
    /\ LET ready == (IF backlog > 0 THEN {serverSocketFd} ELSE {}) \cup Range(readable)
       IN  /\ ready # {}
           /\ readFds' = ready
    /\ UNCHANGED <<cache, masterReadFds, cycle, touched, op, codec,
                   backlog, readable, serving, receiveBuf>>

\* The loop is at the listening socket and accept() returns a descriptor.
LoopAccept ==
    /\ AtLoopTop
    /\ readFds # {}
    /\ NextDescriptor(readFds) = serverSocketFd
    /\ LET clientSocketFd == CHOOSE d \in LoopFds \ masterReadFds :
                                 \A e \in LoopFds \ masterReadFds : d <= e
       IN  masterReadFds' = masterReadFds \cup {clientSocketFd}
    /\ backlog' = backlog - 1
    /\ readFds' = readFds \ {serverSocketFd}
    /\ UNCHANGED <<cache, cycle, touched, op, codec, readable, serving, receiveBuf>>

\* accept() fails: the loop moves on.
LoopAcceptFails ==
    /\ AtLoopTop
    /\ readFds # {}
    /\ NextDescriptor(readFds) = serverSocketFd
    /\ backlog' = backlog - 1
    /\ readFds' = readFds \ {serverSocketFd}
    /\ UNCHANGED <<cache, masterReadFds, cycle, touched, op, codec,
                   readable, serving, receiveBuf>>

\* The loop is at a client and read() fails: the descriptor is dropped.
LoopReadFails ==
    /\ AtLoopTop
    /\ readFds # {}
    /\ NextDescriptor(readFds) # serverSocketFd
    /\ LET descriptor == NextDescriptor(readFds)
           r == RequestCycle(FALSE, NoRequest, NoOutcome, NoOutcome,
                             cache, CacheCapacity, 0)
       IN  /\ cache' = r.cache
           /\ cycle' = r.cycle
           /\ masterReadFds' = CloseClient(masterReadFds, descriptor)
           /\ readable' = Without(readable, descriptor)
           /\ readFds' = readFds \ {descriptor}
    /\ UNCHANGED <<touched, op, codec, backlog, serving, receiveBuf>>

\* The loop is at a client and read() returns what the client sent.
LoopRead ==
    /\ AtLoopTop
    /\ readFds # {}
    /\ NextDescriptor(readFds) # serverSocketFd
    /\ LET descriptor == NextDescriptor(readFds)
       IN  /\ serving' = descriptor
           /\ readable' = Without(readable, descriptor)
           /\ readFds' = readFds \ {descriptor}
    /\ \E getRequest \in LoopRequests : receiveBuf' = getRequest
    /\ UNCHANGED <<cache, masterReadFds, cycle, touched, op, codec, backlog>>

\* The origin calls return and the rest of the cycle runs: lines 512-583.
LoopComplete ==
    /\ serving # NoClient
    /\ \E uo \in FetchOutcomes(receiveBuf) \cap LoopOutcomes :
         \E currentTime \in ClockReadings(receiveBuf, uo, cache) :
           \E co \in ConditionalOutcomes(receiveBuf, uo, cache, currentTime) \cap LoopOutcomes :
             LET r == RequestCycle(TRUE, receiveBuf, uo, co,
                                   cache, CacheCapacity, currentTime)
             IN  /\ cache' = r.cache
                 /\ cycle' = r.cycle
    /\ masterReadFds' = CloseClient(masterReadFds, serving)
    /\ serving' = NoClient
    /\ receiveBuf' = NoRequest
    /\ UNCHANGED <<touched, op, codec, backlog, readable, readFds>>

MainStep ==
    \/ Select
    \/ LoopAccept
    \/ LoopAcceptFails
    \/ LoopReadFails
    \/ LoopRead
    \/ LoopComplete

NextLoop ==
    \/ ClientConnects
    \/ \E descriptor \in LoopFds : ClientSends(descriptor)
    \/ MainStep

SpecLoop == Init /\ [][NextLoop]_vars

\* main keeps running: select() returns when a descriptor is ready, and every
\* accept, read and origin call returns.
SpecLoopFair == SpecLoop /\ WF_vars(MainStep)

(***************************************************************************)
(* parseHTTPBody on its own: applied once to a text                        *)
(***************************************************************************)
\* A header block, the separator and a body put together.
Composed(headerBlock, body) ==
    [composed |-> TRUE, headerBlock |-> headerBlock, body |-> body,
     httpResponse |-> headerBlock \o Separator \o body,
     done |-> FALSE, httpBody |-> <<>>]

\* A text taken as it is.
Raw(text) ==
    [composed |-> FALSE, headerBlock |-> <<>>, body |-> <<>>,
     httpResponse |-> text, done |-> FALSE, httpBody |-> <<>>]

CodecInputs ==
    {Composed(h, b) : h \in Texts(MaxHeaderLen), b \in Texts(MaxBodyLen)}
        \cup {Raw(text) : text \in Texts(MaxRawLen)}

InitCodec ==
    /\ cache = <<>>
    /\ masterReadFds = {}
    /\ cycle = IdleCycle
    /\ touched = <<>>
    /\ op = NoOp
    /\ codec \in CodecInputs
    /\ backlog = 0
    /\ readable = <<>>
    /\ readFds = {}
    /\ serving = NoClient
    /\ receiveBuf = NoRequest

ParseBody ==
    /\ ~codec.done
    /\ codec' = [codec EXCEPT !.done = TRUE,
                              !.httpBody = parseHTTPBodyText(codec.httpResponse)]
    /\ UNCHANGED <<cache, masterReadFds, cycle, touched, op, loopVars>>

NextCodec == ParseBody

SpecCodec == InitCodec /\ [][NextCodec]_vars

(***************************************************************************)
(* Properties                                                              *)
(***************************************************************************)
CycleKey == cycle.host \o cycle.path

ResidentKeys == [i \in 1..Len(cache) |-> cache[i].key]

\* The conditional exchange of the last cycle ended without a usable page.
RevalidationEmpty ==
    /\ cycle.imsCalls # <<>>
    /\ (~cycle.newResponse.bytes \/ parseHTTPBody(cycle.newResponse) = "")

\* C1: after any sequence of request cycles the cache holds at most Capacity
\* entries.
C1_CacheWithinCapacity == Len(cache) <= Capacity

\* C1 case: a miss was added to a cache that was already full.
C1_Witness ==
    /\ cycle.lookup = "miss"
    /\ cycle.sizeBefore = Capacity
    /\ Len(cache) = Capacity

\* C2: under any sequence of fetch and add calls the resident keys are, in
\* recency order, the Capacity most recently touched keys (all touched keys
\* while fewer than Capacity were touched); so an overflowing add evicts just
\* the least recently used key.
C2_ResidentAreMostRecentlyTouched ==
    LET n == Len(touched)
        m == IF n < Capacity THEN n ELSE Capacity
    IN  ResidentKeys = SubSeq(touched, n - m + 1, n)

\* C2 case: an add after more than Capacity + 1 distinct keys were touched.
C2_Witness == Len(touched) > Capacity + 1 /\ op.kind = "add"

\* C3: a fetch of a resident key and an add of any key leave that key most
\* recently used; a fetch of an absent key reports the miss and leaves the
\* cache as it was.
C3_TouchPromotesMissLeaves ==
    [][/\ (op'.kind = "fetch" /\ op'.found) =>
             /\ op'.key \in CacheKeys(cache)
             /\ cache'[Len(cache')] = [key |-> op'.key, value |-> CacheValue(cache, op'.key)]
             /\ op'.value = CacheValue(cache, op'.key)
       /\ (op'.kind = "add") =>
             cache'[Len(cache')] = [key |-> op'.key, value |-> op'.value]
       /\ (op'.kind = "fetch" /\ ~op'.found) =>
             /\ op'.key \notin CacheKeys(cache)
             /\ cache' = cache]_vars

\* C3 case: a resident key was fetched from a full cache.
C3_Witness == op.kind = "fetch" /\ op.found /\ Len(cache) = Capacity

\* C4: on a hit whose cached entry has an Expires still ahead, exactly one
\* conditional request is issued and its date is that cached Expires value.
C4_HitUsesCachedExpires ==
    (/\ cycle.lookup = "hit"
     /\ checkIfTimePassed(cycle.fetchedHeader.expires, cycle.currentTime) = "SUCCESS")
    => /\ Len(cycle.imsCalls) = 1
       /\ cycle.imsCalls[1].date = cycle.fetchedHeader.expires

\* C5: on a hit where Expires is past or unparseable and the origin supplied a
\* well-formed Last-Modified, the conditional request carries the Last-Modified
\* value.
C5_HitUsesLastModified ==
    (/\ cycle.lookup = "hit"
     /\ checkIfTimePassed(cycle.fetchedHeader.expires, cycle.currentTime) # "SUCCESS"
     /\ checkIfTimePassed(cycle.responseBuffer.expires, cycle.currentTime) # "SUCCESS"
     /\ parseHTTPDate(cycle.responseBuffer.lastModified).ok)
    => /\ Len(cycle.imsCalls) = 1
       /\ cycle.imsCalls[1].date = cycle.responseBuffer.lastModified

\* C6: on a hit where no date is selectable the cached entry is returned and
\* stays as it was, and the cycle makes no call to the origin.
C6_UnverifiedHitStaysOffline ==
    (/\ cycle.lookup = "hit"
     /\ ~RequestDate(cycle.fetchedHeader, cycle.currentTime).exitLoop
     /\ cycle.outcome = "unverified-stale")
    => /\ cycle.returned = cycle.fetchedHeader
       /\ cycle.adds = <<>>
       /\ CycleKey \in CacheKeys(cache)
       /\ CacheValue(cache, CycleKey) = cycle.fetchedHeader
       /\ cycle.connects = <<>>
       /\ cycle.wire = <<>>

\* C7: when the conditional exchange yields no bytes or an empty body, the
\* cached entry is returned and sent to the client as it was, add is not
\* called, and the entry stored under the key is the one fetched.
C7_FailedRevalidationServesCached ==
    RevalidationEmpty
    => /\ cycle.returned = cycle.fetchedHeader
       /\ cycle.responded
       /\ cycle.sent = cycle.fetchedHeader.body
       /\ cycle.adds = <<>>
       /\ CycleKey \in CacheKeys(cache)
       /\ CacheValue(cache, CycleKey) = cycle.fetchedHeader

\* C7 case: the origin answered the conditional request with headers and no body.
C7_Witness ==
    /\ cycle.imsCalls # <<>>
    /\ cycle.newResponse = HeadersOnly
    /\ cycle.header.body # cycle.fetchedHeader.body

\* C8: when the conditional exchange returns a page, the entry stored under
\* the key keeps hostName and filePath and takes lastAccessTime, lastModified,
\* expires and body from that response, and is what the client is sent.
C8_RevalidationReplacesEntry ==
    (/\ cycle.imsCalls # <<>>
     /\ cycle.newResponse.bytes
     /\ parseHTTPBody(cycle.newResponse) # "")
    => /\ CycleKey \in CacheKeys(cache)
       /\ LET stored == CacheValue(cache, CycleKey)
          IN  /\ stored.hostName = cycle.fetchedHeader.hostName
              /\ stored.filePath = cycle.fetchedHeader.filePath
              /\ stored.lastAccessTime = cycle.newResponse.date
              /\ stored.lastModified = cycle.newResponse.lastModified
              /\ stored.expires = cycle.newResponse.expires
              /\ stored.body = cycle.newResponse.body
              /\ cycle.returned = stored
              /\ cycle.sent = stored.body

\* C9: a request that does not match the pattern goes no further: no origin
\* connection is attempted, the cache is not used, and the connection goes
\* from Parsing to Closed.
C9_MalformedRequestStops ==
    (cycle.recOk /\ ~cycle.matched)
    => /\ cycle.connects = <<>>
       /\ cycle.lookup = "none"
       /\ cycle.adds = <<>>
       /\ cycle.phases = <<"Parsing", "Closed">>

\* C10: on a hit the only origin traffic is at most one conditional request;
\* a plain GET goes to the origin only on a miss.
C10_HitSendsNoPlainGet ==
    cycle.lookup = "hit"
    => /\ \A i \in 1..Len(cycle.wire) : cycle.wire[i].conditional
       /\ Len(cycle.wire) <= 1
       /\ Len(cycle.imsCalls) <= 1

\* The origin the last cycle turned to gave nothing usable: the connection main
\* opens failed or brought no page, or the conditional exchange came back empty.
OriginGaveNothing ==
    \/ cycle.opened = <<>>
    \/ ~cycle.responseBuffer.sep
    \/ cycle.responseBuffer.body = ""
    \/ RevalidationEmpty

\* C11: when the key of a well-formed request is resident and the origin
\* cannot be reached or returns nothing usable, the client is sent the body of
\* the cached entry; its connection is not closed without a response.
C11_ResidentKeyServedWhenOriginFails ==
    (/\ cycle.recOk
     /\ cycle.matched
     /\ cycle.resident
     /\ OriginGaveNothing)
    => /\ cycle.responded
       /\ CycleKey \in CacheKeys(cache)
       /\ cycle.sent = CacheValue(cache, CycleKey).body

\* C13: when the key is not resident and the origin returns a page with a
\* non-empty body, add is called exactly once, with key hostName + filePath and
\* the entry built from that page; the page's body is sent to the client and
\* the key is resident afterwards (one entry when the cache was empty).
C13_MissAddsOnceAndServes ==
    (/\ cycle.recOk
     /\ ~cycle.resident
     /\ cycle.opened # <<>>
     /\ cycle.responseBuffer.sep
     /\ cycle.responseBuffer.body # "")
    => /\ cycle.lookup = "miss"
       /\ cycle.header.hostName = cycle.host
       /\ cycle.header.filePath = cycle.path
       /\ cycle.header.body = cycle.responseBuffer.body
       /\ cycle.adds = <<[key |-> CycleKey, value |-> cycle.header]>>
       /\ cycle.responded
       /\ cycle.sent = cycle.responseBuffer.body
       /\ CycleKey \in CacheKeys(cache)
       /\ CacheValue(cache, CycleKey) = cycle.header
       /\ (cycle.sizeBefore = 0 => Len(cache) = 1)

\* C13 case: the first request into an empty cache fetched a page.
C13_Witness ==
    /\ cycle.lookup = "miss"
    /\ cycle.sizeBefore = 0
    /\ Len(cache) = 1
    /\ cycle.sent = "page1"

\* C14: a cycle for a key that is not resident, in which the origin connection
\* fails or the origin's reply has no body, sends the client nothing and leaves
\* the cache, contents and recency order, as it was.
C14_FailedMissLeavesCacheAndClient ==
    [][(/\ masterReadFds' # masterReadFds
        /\ cycle'.recOk
        /\ ~cycle'.resident
        /\ (\/ cycle'.opened = <<>>
            \/ ~cycle'.responseBuffer.sep
            \/ cycle'.responseBuffer.body = ""))
       => /\ cache' = cache
          /\ ~cycle'.responded
          /\ cycle'.sent = ""
          /\ cycle'.adds = <<>>
          /\ cycle'.phases[Len(cycle'.phases)] = "Closed"]_vars

\* C14 case: a non-empty cache, and the origin answered a request for an
\* absent key with headers and no body.
C14_Witness ==
    /\ cycle.recOk
    /\ cycle.matched
    /\ ~cycle.resident
    /\ cycle.sizeBefore > 0
    /\ cycle.responseBuffer = HeadersOnly

\* C18: every resident entry has a non-empty body, and a client is either
\* sent a non-empty body or sent nothing at all.
C18_BodiesNonEmpty ==
    /\ \A i \in 1..Len(cache) : cache[i].value.body # ""
    /\ cycle.responded => cycle.sent # ""
    /\ ~cycle.responded => cycle.sent = ""

\* C18 case: the conditional reply had no separator and the cached page was
\* served in its place.
C18_Witness ==
    /\ cycle.outcome = "stale-served"
    /\ cycle.newResponse = NoSeparator
    /\ cycle.responded

\* C19: every resident entry is stored under hostName + filePath of itself; a
\* revalidation writes back an entry with the host and path of the entry it
\* replaces, and the conditional request goes to that stored host and path,
\* also when the request's host and path differ from them.
C19_EntriesMatchTheirKey ==
    /\ \A i \in 1..Len(cache) :
          cache[i].value.hostName \o cache[i].value.filePath = cache[i].key
    /\ cycle.lookup = "hit" =>
          /\ cycle.fetchedHeader.hostName \o cycle.fetchedHeader.filePath = CycleKey
          /\ \A i \in 1..Len(cycle.wire) :
                cycle.wire[i].conditional =>
                   /\ cycle.wire[i].hostName = cycle.fetchedHeader.hostName
                   /\ cycle.wire[i].filePath = cycle.fetchedHeader.filePath
    /\ cycle.outcome = "revalidated" =>
          /\ CycleKey \in CacheKeys(cache)
          /\ CacheValue(cache, CycleKey).hostName = cycle.fetchedHeader.hostName
          /\ CacheValue(cache, CycleKey).filePath = cycle.fetchedHeader.filePath

\* C19 case: a request whose host and path differ from those of the entry
\* stored under the same key was revalidated.
C19_Witness ==
    /\ cycle.outcome = "revalidated"
    /\ cycle.host # cycle.fetchedHeader.hostName
    /\ cycle.path # cycle.fetchedHeader.filePath

\* C20: every origin socket a cycle opens is closed by the time the cycle
\* ends.
C20_OriginSocketsClosed ==
    \A i \in 1..Len(cycle.opened) :
        \E j \in 1..Len(cycle.closed) : cycle.closed[j] = cycle.opened[i]

\* The text holds a "\r\n\r\n" somewhere.
HoldsSeparator(text) ==
    \E pos \in 1..Len(text) :
        /\ pos + 3 <= Len(text)
        /\ text[pos] = "\r"
        /\ text[pos + 1] = "\n"
        /\ text[pos + 2] = "\r"
        /\ text[pos + 3] = "\n"

\* C17 as stated: for any header block H and any body B the body parsed from
\* H + "\r\n\r\n" + B is B, and a text without separator gives the empty body.
C17_ParseBodyRoundTrip ==
    codec.done =>
        /\ codec.composed => codec.httpBody = codec.body
        /\ ~HoldsSeparator(codec.httpResponse) => codec.httpBody = <<>>

\* C17 amended: the round trip holds for every header block H that forms no
\* separator before its own end (H + "\r\n\r" holds no "\r\n\r\n"), and a text
\* without separator gives the empty body.
C17_ParseBodyRoundTripFirstSeparator ==
    codec.done =>
        /\ (codec.composed /\ ~HoldsSeparator(codec.headerBlock \o <<"\r", "\n", "\r">>))
               => codec.httpBody = codec.body
        /\ ~HoldsSeparator(codec.httpResponse) => codec.httpBody = <<>>

\* C17 case: a header block with a line break inside, followed by a body that
\* is itself a line break, was parsed.
C17_Witness ==
    /\ codec.done
    /\ codec.composed
    /\ ~HoldsSeparator(codec.headerBlock \o <<"\r", "\n", "\r">>)
    /\ codec.headerBlock = <<"\r", "\n", "x">>
    /\ codec.body = <<"\r", "\n">>

\* The step takes the descriptor's request off its socket: read() was called
\* on it.
IsRead(descriptor) ==
    /\ descriptor \in Range(readable)
    /\ descriptor \notin Range(readable')

\* C12: a client connection is one-shot.  Only monitored descriptors are ever
\* read; a read ends with the descriptor closed or with its cycle begun; the
\* end of a cycle closes the descriptor and takes it out of the master set;
\* and, main's calls returning, every readable client is eventually closed.
C12_OneShotConnections ==
    /\ [](/\ (readFds \ {serverSocketFd}) \subseteq masterReadFds
          /\ Range(readable) \subseteq masterReadFds
          /\ serving # NoClient =>
                /\ serving \in masterReadFds
                /\ serving \notin readFds
                /\ serving \notin Range(readable))
    /\ [][\A d \in LoopFds :
            /\ IsRead(d) => (serving' = d \/ d \notin masterReadFds')
            /\ (serving = d /\ serving' # d) =>
                  /\ d \notin masterReadFds'
                  /\ cycle'.phases[Len(cycle'.phases)] = "Closed"]_vars
    /\ \A d \in LoopFds : (d \in Range(readable)) ~> (d \notin masterReadFds)

\* C12 case: a client was answered from the cache and closed while another
\* client is still connected.
C12_Witness ==
    /\ cycle.responded
    /\ cycle.lookup = "hit"
    /\ serving = NoClient
    /\ masterReadFds # {}

\* C15: while a client's cycle is in progress no connection is accepted, no
\* other client is read or closed, select() is not called, and the only cache
\* calls and the only response are those of the request that was read.
C15_CyclesSerialized ==
    [][serving # NoClient =>
          /\ masterReadFds' \subseteq masterReadFds
          /\ (masterReadFds \ masterReadFds') \subseteq {serving}
          /\ readFds' = readFds
          /\ \A d \in LoopFds : ~IsRead(d)
          /\ serving' \in {serving, NoClient}
          /\ (cache' # cache \/ cycle' # cycle) =>
                /\ serving' = NoClient
                /\ serving \notin masterReadFds'
                /\ cycle'.getRequest = receiveBuf
                /\ \A i \in 1..Len(cycle'.adds) :
                      cycle'.adds[i].key = cycle'.host \o cycle'.path]_vars

\* C15 case: a cycle is in progress while another client has sent its request.
C15_Witness ==
    /\ serving # NoClient
    /\ readable # <<>>

\* C16 as stated: a client is read only when no other client has been
\* readable for longer, so cycles run in the order of readiness.
C16_ServedInReadinessOrder ==
    [][\A d \in LoopFds : IsRead(d) => d = Head(readable)]_vars

\* C16 amended: cycles run one at a time in the order the for loop reaches the
\* descriptors select() reported: a client is read only after the cycle before
\* it is through, and it is the lowest descriptor of the select() result not
\* yet visited.
C16_ServedInDescriptorOrder ==
    [][\A d \in LoopFds :
          IsRead(d) =>
             /\ serving = NoClient
             /\ d \in readFds
             /\ \A e \in readFds : d <= e]_vars

\* C16 case: select() reported two clients; the lower one is being served and
\* the higher one waits.
C16_Witness ==
    /\ serving # NoClient
    /\ \E e \in readFds : e > serving

============================================================================
